---- MODULE Spec2Model ----
(***************************************************************************)
(* HuggingFaceCheckpointer (llmfoundry/callbacks/hf_checkpointer.py).      *)
(*                                                                         *)
(* One callback object per rank.  The trainer delivers the same lifecycle  *)
(* events to every rank; each rank runs run_event step by step, and the    *)
(* ranks meet in the collectives (barrier, all_reduce).  Registration      *)
(* child processes run on their own and exit when they please.             *)
(***************************************************************************)
EXTENDS Integers, Sequences, FiniteSets, TLC

\* ---------------------------------------------------------------- bounds
NumRanks == 2        \* world size
MaxSteps == 2        \* most training batches of a run
MaxLoggers == 2      \* most MLFlowLogger objects among logger.destinations
MaxPolls == 2        \* most _all_child_processes_done calls of one FIT_END
MaxFiles == 2        \* most names os.listdir returns for a saved model directory

\* ------------------------------------------------------ program constants
timeout == 3600      \* run_event, FIT_END: timeout = 3600
SleepSeconds == 2    \* run_event, FIT_END: time.sleep(2)

None == "None"
NoBatch == -1          \* self.last_checkpoint_batch = None
Ranks == 0 .. (NumRanks - 1)
NoDir == <<"none", 0>>

EventTypes == {"INIT", "FIT_START", "BATCH_CHECKPOINT", "EPOCH_CHECKPOINT", "FIT_END"}

VARIABLES
    cfg,                    \* constructor arguments and the trainer's run configuration
    durKnown,               \* state.max_duration is not None
    ts,                     \* state.timestamp
    ev,                     \* the event being delivered, with what the scheduler would answer
    stage,                  \* trainer position: "new", "init", "fit", "end"
    pc,                     \* per rank: position inside run_event
    err,                    \* per rank: the exception that left run_event, or None
    last_checkpoint_batch,  \* per rank: self.last_checkpoint_batch
    mlflow_loggers,         \* per rank: self.mlflow_loggers (logger ids)
    child_processes,        \* per rank: self.child_processes
    temp_save_dir,          \* per rank: self.temp_save_dir
    cur_dir,                \* per rank: local temp_save_dir of the running cycle
    reg_i,                  \* per rank: loop index i of the mlflow_loggers loop
    tmpdirs,                \* per rank: temporary directories existing on its disk
    ops,                    \* per rank: side effects of the current run_event call
    coll,                   \* per rank: collective calls of the current run_event call
    cyclesAtBatch,          \* per rank: _save_checkpoint calls at timestamp.batch
    now,                    \* time.time()
    wait_start,             \* per rank: wait_start of FIT_END
    wake,                   \* per rank: when the running time.sleep(2) may return
    arg,                    \* the call of a function checked on its own: its name and arguments
    res                     \* what that call returned, None before it ran

vars == <<cfg, durKnown, ts, ev, stage, pc, err, last_checkpoint_batch,
          mlflow_loggers, child_processes, temp_save_dir, cur_dir, reg_i,
          tmpdirs, ops, coll, cyclesAtBatch, now, wait_start, wake, arg, res>>

callVars == <<arg, res>>
trainerVars == <<cfg, durKnown, ts, ev, stage, callVars>>
selfVars == <<last_checkpoint_batch, mlflow_loggers, child_processes, temp_save_dir>>
cycleVars == <<cur_dir, reg_i, tmpdirs, cyclesAtBatch>>
clockVars == <<now, wait_start, wake>>

\* ---------------------------------------------------------- configuration
\* mlflow_registered_model_name: None, the empty string, or a name.
RegisteredNames == {None, "", "model"}

\* state.max_duration, in epochs or in batches.
MaxDurations ==
    {[unit |-> u, value |-> v] : u \in {"ep", "ba"}, v \in 1 .. MaxSteps}

\* Time.from_input(save_interval, TimeUnit.EPOCH); a duration value is num/den.
SaveIntervals ==
    { [unit |-> "ba", num |-> 1, den |-> 1],
      [unit |-> "ep", num |-> 1, den |-> 1],
      [unit |-> "dur", num |-> 1, den |-> 1],
      [unit |-> "dur", num |-> 1, den |-> 2] }

\* The runs considered train for at most MaxSteps batches; overwrite keeps
\* its default where nothing is uploaded.
Configs ==
    { c \in [ remote : BOOLEAN,
              overwrite : BOOLEAN,
              mlflow_registered_model_name : RegisteredNames,
              max_duration : MaxDurations,
              dataloader_len : 1 .. MaxSteps,
              save_interval : SaveIntervals ] :
        /\ c.max_duration.unit = "ep" =>
               c.max_duration.value * c.dataloader_len <= MaxSteps
        /\ ~c.remote => c.overwrite }

\* What logger.destinations and state.model look like at INIT.
Events ==
    [ type : EventTypes,
      due : BOOLEAN,                    \* what self.check_interval would answer
      model_ok : BOOLEAN,               \* isinstance(state.model, HuggingFaceModel)
      destinations : 0 .. MaxLoggers ]  \* MLFlowLogger objects in logger.destinations

Event(type, due) ==
    [type |-> type, due |-> due, model_ok |-> TRUE, destinations |-> 0]

\* Files save_pretrained (model, tokenizer) leaves in the checkpoint directory.
SavedFiles == <<"config.json", "model.safetensors", "tokenizer.json">>

Op(op, dir, i, file) == [op |-> op, dir |-> dir, i |-> i, file |-> file]

\* save_dir: save_dir_format_str / huggingface / ba{batch}, formatted with the
\* timestamp.
SaveDir == <<"save", ts.batch>>

\* os.path.join(dir, filename)
Join(dir, filename) == <<dir, filename>>

\* Variant: the remote name is built from the local directory.
UploadOp_LocalName(dir, filename) ==
    [op |-> "upload_file", dir |-> dir, i |-> 0, file |-> filename,
     remote_file_name |-> Join(dir, filename),
     file_path |-> Join(dir, filename),
     overwrite |-> cfg.overwrite]

\* One remote_ud.upload_file call.
UploadOp(dir, filename) ==
    [op |-> "upload_file", dir |-> dir, i |-> 0, file |-> filename,
     remote_file_name |-> Join(SaveDir, filename),
     file_path |-> Join(dir, filename),
     overwrite |-> cfg.overwrite]

\* ------------------------------------------------------------- helpers
Append2(f, r, x) == [f EXCEPT ![r] = Append(@, x)]

RECURSIVE SeqMax(_)
SeqMax(s) ==
    IF s = <<>> THEN 0
    ELSE LET m == SeqMax(Tail(s)) IN IF Head(s) > m THEN Head(s) ELSE m

RECURSIVE SeqMin(_)
SeqMin(s) ==
    IF Len(s) = 1 THEN Head(s)
    ELSE LET m == SeqMin(Tail(s)) IN IF Head(s) < m THEN Head(s) ELSE m

\* tempfile.mkdtemp(): a directory name that does not exist yet.
Mkdtemp(r) ==
    <<"tmp", CHOOSE n \in 1 .. (Cardinality(tmpdirs[r]) + 1) :
                 /\ <<"tmp", n>> \notin tmpdirs[r]
                 /\ \A m \in 1 .. (n - 1) : <<"tmp", m>> \in tmpdirs[r]>>

\* Variant: every rank takes the coordinator's branches.
IsCoordinator_Any(r) == TRUE

\* dist.get_global_rank() == 0
IsCoordinator(r) == r = 0

\* state.get_elapsed_duration() is None
ElapsedIsNone == ~durKnown

\* state.timestamp.get(unit)
Count(unit) == IF unit = "ep" THEN ts.epoch ELSE ts.batch

\* state.get_elapsed_duration() >= 1.0, as timestamp.get(unit) / max_duration.value
ElapsedGE1 == Count(cfg.max_duration.unit) >= cfg.max_duration.value

\* math.ceil of an integer product
Ceil(n) == n

\* self.check_interval(state, event): true only on the scheduler's own events.
CheckInterval ==
    ev.type \in {"BATCH_CHECKPOINT", "EPOCH_CHECKPOINT"} /\ ev.due

\* Variant: only the coordinator decides to checkpoint.
ShouldCheckpoint_CoordinatorOnly(r) ==
    /\ IsCoordinator(r)
    /\ ~ElapsedIsNone
    /\ CheckInterval
    /\ last_checkpoint_batch[r] # ts.batch

\* Variant: the marker self.last_checkpoint_batch is not consulted.
ShouldCheckpoint_NoMarker(r) ==
    /\ ~ElapsedIsNone
    /\ CheckInterval

\* Variant: the scheduler is asked even without an elapsed duration.
ShouldCheckpoint_NoElapsed(r) ==
    /\ CheckInterval
    /\ last_checkpoint_batch[r] # ts.batch

\* The condition of the first branch of run_event.
ShouldCheckpoint(r) ==
    /\ ~ElapsedIsNone
    /\ CheckInterval
    /\ last_checkpoint_batch[r] # ts.batch

\* Which branch of run_event the event takes on rank r.
Branch(r) ==
    IF ShouldCheckpoint(r) THEN "save"
    ELSE IF ev.type = "INIT" THEN "init"
    ELSE IF ev.type = "FIT_END" THEN "fit_end"
    ELSE "none"

\* Variant: without the special case for an interval in batches.
IsLastBatch_NoBatchCase ==
    IF ~ElapsedIsNone /\ ElapsedGE1 THEN TRUE
    ELSE IF /\ cfg.save_interval.unit = "dur"
            /\ cfg.save_interval.num = cfg.save_interval.den
            /\ cfg.max_duration.unit = "ep"
    THEN ts.batch % Ceil(cfg.max_duration.value * cfg.dataloader_len) = 0
    ELSE FALSE

\* Variant: without the special case for an interval of one duration.
IsLastBatch_NoDurationCase ==
    IF ~ElapsedIsNone /\ ElapsedGE1 THEN TRUE
    ELSE cfg.save_interval.unit = "ba"
            /\ cfg.max_duration.unit = "ep"
            /\ ts.epoch = cfg.max_duration.value - 1
            /\ cfg.dataloader_len = ts.batch_in_epoch

\* self._is_last_batch(state)
IsLastBatch ==
    IF ~ElapsedIsNone /\ ElapsedGE1 THEN TRUE
    ELSE
        LET epoch_complete == cfg.dataloader_len = ts.batch_in_epoch
            second_to_last_epoch ==
                /\ cfg.max_duration.unit = "ep"
                /\ ts.epoch = cfg.max_duration.value - 1
        IN  IF cfg.save_interval.unit = "ba" /\ second_to_last_epoch /\ epoch_complete
            THEN TRUE
            ELSE IF /\ cfg.save_interval.unit = "dur"
                    /\ cfg.save_interval.num = cfg.save_interval.den
                    /\ cfg.max_duration.unit = "ep"
            THEN ts.batch % Ceil(cfg.max_duration.value * cfg.dataloader_len) = 0
            ELSE FALSE

\* The truth value of self.mlflow_registered_model_name.
NameTruthy ==
    cfg.mlflow_registered_model_name \notin {None, ""}

\* Variant: registration on every checkpoint, not only the last.
RegisterNow_NameOnly == NameTruthy

\* The condition that opens the registry branch of _save_checkpoint.
RegisterNow == NameTruthy /\ IsLastBatch

\* Variant: a child that ended in failure still counts as outstanding.
NotDone_FailedOutstanding(r) ==
    \E k \in 1 .. Len(child_processes[r]) :
        child_processes[r][k].alive \/ child_processes[r][k].outcome = "raised"

\* any(process.is_alive() for process in self.child_processes)
NotDone(r) ==
    \E k \in 1 .. Len(child_processes[r]) : child_processes[r][k].alive

\* Variant: a collective that does not wait for the other ranks.
CollectiveComplete_NoWait(r) == TRUE

\* A collective call returns once every rank has made the same-numbered call.
CollectiveComplete(r) ==
    \A x \in Ranks : Len(coll[x]) >= Len(coll[r])

\* Variant: the reduction takes the minimum.
AllReduce_Min(r) ==
    SeqMin([x \in 1 .. NumRanks |-> coll[x - 1][Len(coll[r])].val])

\* dist.all_reduce(x, reduce_operation='MAX') of the call rank r is in.
AllReduce(r) ==
    SeqMax([x \in 1 .. NumRanks |-> coll[x - 1][Len(coll[r])].val])

\* Variant: each rank looks at its own child processes only.
AllChildProcessesDone_Local(r) == coll[r][Len(coll[r])].val = 0

\* self._all_child_processes_done(), once the all_reduce returned.
AllChildProcessesDone(r) == AllReduce(r) = 0

\* Variant: the comparison is >=.
TimedOut_AtTimeout(r) == now - wait_start[r] >= timeout

\* wait_time > timeout, with wait_time = time.time() - wait_start
TimedOut(r) == now - wait_start[r] > timeout

\* No function is being called on its own; no result yet.
NoCall == [fn |-> "none"]
NoResult == [done |-> FALSE]
Result(v) == [done |-> TRUE, val |-> v]

\* ------------------------------------------------------------------ Init
CallbackInit ==
    /\ cfg \in Configs
    /\ durKnown \in BOOLEAN
    /\ ts = [batch |-> 0, epoch |-> 0, batch_in_epoch |-> 0]
    /\ ev = Event("FIT_START", FALSE)
    /\ stage = "new"
    /\ pc = [r \in Ranks |-> "idle"]
    /\ err = [r \in Ranks |-> None]
    /\ last_checkpoint_batch = [r \in Ranks |-> NoBatch]
    /\ mlflow_loggers = [r \in Ranks |-> <<>>]
    /\ child_processes = [r \in Ranks |-> <<>>]
    /\ temp_save_dir = [r \in Ranks |-> NoDir]
    /\ cur_dir = [r \in Ranks |-> NoDir]
    /\ reg_i = [r \in Ranks |-> 0]
    /\ tmpdirs = [r \in Ranks |-> {}]
    /\ ops = [r \in Ranks |-> <<>>]
    /\ coll = [r \in Ranks |-> <<>>]
    /\ cyclesAtBatch = [r \in Ranks |-> 0]
    /\ now = 0
    /\ wait_start = [r \in Ranks |-> 0]
    /\ wake = [r \in Ranks |-> 0]

\* A training run: no function is called on its own.
Init ==
    /\ CallbackInit
    /\ arg = NoCall
    /\ res = NoResult

\* --------------------------------------------------------------- trainer
AllReturned == \A r \in Ranks : pc[r] = "idle"

Deliver(e) ==
    /\ AllReturned
    /\ ev' = e
    /\ pc' = [r \in Ranks |-> "run_event"]
    /\ ops' = [r \in Ranks |-> <<>>]
    /\ coll' = [r \in Ranks |-> <<>>]
    /\ UNCHANGED <<cfg, callVars, err, selfVars, cur_dir, reg_i, tmpdirs, clockVars>>

DeliverInit ==
    /\ stage = "new"
    /\ \E ok \in BOOLEAN, n \in 0 .. MaxLoggers :
        Deliver([type |-> "INIT", due |-> FALSE, model_ok |-> ok, destinations |-> n])
    /\ stage' = "init"
    /\ UNCHANGED <<durKnown, ts, cyclesAtBatch>>

\* Trainer.fit: max_duration is known from here on when fit was given one.
DeliverFitStart ==
    /\ stage = "init"
    /\ Deliver(Event("FIT_START", FALSE))
    /\ stage' = "fit"
    /\ durKnown' \in {durKnown, TRUE}
    /\ UNCHANGED <<ts, cyclesAtBatch>>

\* A training batch: timestamp.to_next_batch(), then BATCH_CHECKPOINT.
NextBatch ==
    /\ stage = "fit"
    /\ Count(cfg.max_duration.unit) < cfg.max_duration.value
    /\ ts.batch_in_epoch < cfg.dataloader_len
    /\ ts' = [ts EXCEPT !.batch = @ + 1, !.batch_in_epoch = @ + 1]
    /\ \E due \in BOOLEAN : Deliver(Event("BATCH_CHECKPOINT", due))
    /\ cyclesAtBatch' = [r \in Ranks |-> 0]
    /\ UNCHANGED <<durKnown, stage>>

\* The end of an epoch: timestamp.to_next_epoch(), then EPOCH_CHECKPOINT.
NextEpoch ==
    /\ stage = "fit"
    /\ ev.type = "BATCH_CHECKPOINT"
    /\ ts.batch_in_epoch = cfg.dataloader_len
    /\ ts' = [ts EXCEPT !.epoch = @ + 1, !.batch_in_epoch = 0]
    /\ \E due \in BOOLEAN : Deliver(Event("EPOCH_CHECKPOINT", due))
    /\ UNCHANGED <<durKnown, stage, cyclesAtBatch>>

DeliverFitEnd ==
    /\ stage = "fit"
    /\ Count(cfg.max_duration.unit) >= cfg.max_duration.value
    /\ ts.batch_in_epoch # cfg.dataloader_len
    /\ Deliver(Event("FIT_END", FALSE))
    /\ stage' = "end"
    /\ UNCHANGED <<durKnown, ts, cyclesAtBatch>>

\* ------------------------------------------------- run_event, first step
\* A rank's step runs up to the next collective call it has to wait in.
Barrier == [kind |-> "barrier", val |-> 0]

\* _save_checkpoint, lines 415-497: the marker, the directory to write to,
\* get_model_state_dict with the tensor hooks.  A rank other than 0 goes on
\* to the barrier of line 590.
SaveCheckpointBegin(r) ==
    /\ pc[r] = "run_event"
    /\ Branch(r) = "save"
    /\ last_checkpoint_batch' = [last_checkpoint_batch EXCEPT ![r] = ts.batch]
    /\ cyclesAtBatch' = [cyclesAtBatch EXCEPT ![r] = @ + 1]
    /\ IF cfg.remote
       THEN LET d == Mkdtemp(r)
            IN  /\ tmpdirs' = [tmpdirs EXCEPT ![r] = @ \cup {d}]
                /\ cur_dir' = [cur_dir EXCEPT ![r] = d]
                /\ ops' = [ops EXCEPT ![r] =
                       @ \o <<Op("mkdtemp", d, 0, ""), Op("gather", NoDir, 0, "")>>]
       ELSE /\ cur_dir' = [cur_dir EXCEPT ![r] = SaveDir]
            /\ ops' = Append2(ops, r, Op("gather", NoDir, 0, ""))
            /\ UNCHANGED tmpdirs
    /\ IF IsCoordinator(r)
       THEN /\ coll' = Append2(coll, r, [kind |-> "gather", val |-> 0])
            /\ pc' = [pc EXCEPT ![r] = "rehydrate"]
       ELSE /\ coll' = [coll EXCEPT ![r] =
                   @ \o <<[kind |-> "gather", val |-> 0], Barrier>>]
            /\ pc' = [pc EXCEPT ![r] = "in_barrier1"]
    /\ UNCHANGED <<trainerVars, err, mlflow_loggers, child_processes,
                   temp_save_dir, reg_i, clockVars>>

\* Variant: INIT does not look for an MLFlowLogger.
InitEvent_NoLoggerCheck(r) ==
    /\ pc[r] = "run_event"
    /\ Branch(r) = "init"
    /\ ev.model_ok
    /\ IF cfg.mlflow_registered_model_name # None
       THEN mlflow_loggers' =
                [mlflow_loggers EXCEPT ![r] = [k \in 1 .. ev.destinations |-> k]]
       ELSE UNCHANGED mlflow_loggers
    /\ ops' = Append2(ops, r, Op("using_peft", NoDir, 0, ""))
    /\ pc' = [pc EXCEPT ![r] = "idle"]
    /\ UNCHANGED <<trainerVars, err, last_checkpoint_batch, child_processes,
                   temp_save_dir, cycleVars, coll, clockVars>>

\* The INIT branch when nothing is raised.
InitEvent(r) ==
    /\ pc[r] = "run_event"
    /\ Branch(r) = "init"
    /\ ev.model_ok
    /\ IF cfg.mlflow_registered_model_name # None
       THEN /\ ev.destinations > 0
            /\ mlflow_loggers' =
                   [mlflow_loggers EXCEPT ![r] = [k \in 1 .. ev.destinations |-> k]]
       ELSE UNCHANGED mlflow_loggers
    /\ ops' = Append2(ops, r, Op("using_peft", NoDir, 0, ""))
    /\ pc' = [pc EXCEPT ![r] = "idle"]
    /\ UNCHANGED <<trainerVars, err, last_checkpoint_batch, child_processes,
                   temp_save_dir, cycleVars, coll, clockVars>>

\* The INIT branch raising ValueError: wrong model wrapper, or a registry
\* name without any MLFlowLogger.
InitRaises(r) ==
    /\ pc[r] = "run_event"
    /\ Branch(r) = "init"
    /\ \/ ~ev.model_ok
       \/ cfg.mlflow_registered_model_name # None /\ ev.destinations = 0
    /\ err' = [err EXCEPT ![r] = "ValueError"]
    /\ pc' = [pc EXCEPT ![r] = "raised"]
    /\ UNCHANGED <<trainerVars, selfVars, cycleVars, ops, coll, clockVars>>

\* _all_child_processes_done up to the all_reduce call: the local answer.
Poll(r) == [kind |-> "all_reduce", val |-> IF NotDone(r) THEN 1 ELSE 0]

\* The FIT_END branch: wait_start = time.time(), then the first poll.
FitEndBegin(r) ==
    /\ pc[r] = "run_event"
    /\ Branch(r) = "fit_end"
    /\ wait_start' = [wait_start EXCEPT ![r] = now]
    /\ coll' = Append2(coll, r, Poll(r))
    /\ pc' = [pc EXCEPT ![r] = "in_reduce"]
    /\ UNCHANGED <<trainerVars, err, selfVars, cycleVars, ops, now, wake>>

\* No branch of run_event matches.
IgnoreEvent(r) ==
    /\ pc[r] = "run_event"
    /\ Branch(r) = "none"
    /\ pc' = [pc EXCEPT ![r] = "idle"]
    /\ UNCHANGED <<trainerVars, err, selfVars, cycleVars, ops, coll, clockVars>>

\* ------------------------------------------------------ _save_checkpoint
\* Lines 501-572: new model from the transformed config, load_state_dict,
\* hooks, save_pretrained of model and tokenizer.
RehydrateAndSave(r) ==
    /\ pc[r] = "rehydrate"
    /\ ops' = [ops EXCEPT ![r] =
                  @ \o << Op("load_state_dict", NoDir, 0, ""),
                          Op("save_pretrained", cur_dir[r], 0, "") >>]
    /\ pc' = [pc EXCEPT ![r] = "upload"]
    /\ UNCHANGED <<trainerVars, err, selfVars, cycleVars, coll, clockVars>>

\* load_state_dict or save_pretrained raising.
RehydrateRaises(r) ==
    /\ pc[r] = "rehydrate"
    /\ err' = [err EXCEPT ![r] = "RuntimeError"]
    /\ pc' = [pc EXCEPT ![r] = "raised"]
    /\ UNCHANGED <<trainerVars, selfVars, cycleVars, ops, coll, clockVars>>

\* Lines 574-590: one upload_file per file of the directory, then the barrier.
UploadFiles(r) ==
    /\ pc[r] = "upload"
    /\ ops' = [ops EXCEPT ![r] =
                  IF cfg.remote
                  THEN @ \o [k \in 1 .. Len(SavedFiles) |->
                                UploadOp(cur_dir[r], SavedFiles[k])]
                  ELSE @]
    /\ coll' = Append2(coll, r, Barrier)
    /\ pc' = [pc EXCEPT ![r] = "in_barrier1"]
    /\ UNCHANGED <<trainerVars, err, selfVars, cycleVars, clockVars>>

\* remote_ud.upload_file raising.
UploadRaises(r) ==
    /\ pc[r] = "upload"
    /\ cfg.remote
    /\ err' = [err EXCEPT ![r] = "IOError"]
    /\ pc' = [pc EXCEPT ![r] = "raised"]
    /\ UNCHANGED <<trainerVars, selfVars, cycleVars, ops, coll, clockVars>>

\* Line 590: dist.barrier() returns.  A rank other than 0 goes on to the
\* barrier of line 681.
BarrierLeave1(r) ==
    /\ pc[r] = "in_barrier1"
    /\ CollectiveComplete(r)
    /\ IF IsCoordinator(r)
       THEN /\ pc' = [pc EXCEPT ![r] = "registry"]
            /\ UNCHANGED coll
       ELSE /\ pc' = [pc EXCEPT ![r] = "in_barrier2"]
            /\ coll' = Append2(coll, r, Barrier)
    /\ UNCHANGED <<trainerVars, err, selfVars, cycleVars, ops, clockVars>>

\* Lines 593-604: the registry branch opens.
RegistryBegin(r) ==
    /\ pc[r] = "registry"
    /\ RegisterNow
    /\ ops' = Append2(ops, r, Op("transform_model_pre_registration", NoDir, 0, ""))
    /\ reg_i' = [reg_i EXCEPT ![r] = 0]
    /\ IF Len(mlflow_loggers[r]) = 0
       THEN /\ pc' = [pc EXCEPT ![r] = "in_barrier2"]
            /\ coll' = Append2(coll, r, Barrier)
       ELSE /\ pc' = [pc EXCEPT ![r] = "register"]
            /\ UNCHANGED coll
    /\ UNCHANGED <<trainerVars, err, selfVars, cur_dir, tmpdirs,
                   cyclesAtBatch, clockVars>>

\* Variant: the child process is started before the directory edit hook runs.
RegisterLogger_StartFirst(r) ==
    /\ pc[r] = "register"
    /\ LET i == reg_i[r]
           local_save_path == <<cur_dir[r], i>>
       IN  /\ \E license \in BOOLEAN :
                ops' = [ops EXCEPT ![r] =
                    @ \o << Op("save_model", cur_dir[r], i, "") >>
                      \o (IF license
                          THEN << Op("license", cur_dir[r], i, "LICENSE"),
                                  Op("log_artifact", cur_dir[r], i, "LICENSE") >>
                          ELSE << Op("license", cur_dir[r], i, "") >>)
                      \o << Op("start", cur_dir[r], i, ""),
                            Op("pre_register_edit", cur_dir[r], i, ""),
                            Op("append", cur_dir[r], i, "") >>]
           /\ child_processes' = Append2(child_processes, r,
                  [model_uri |-> local_save_path, alive |-> TRUE, outcome |-> None])
           /\ temp_save_dir' = [temp_save_dir EXCEPT ![r] =
                  IF cfg.remote THEN cur_dir[r] ELSE @]
           /\ reg_i' = [reg_i EXCEPT ![r] = i + 1]
           /\ IF i + 1 = Len(mlflow_loggers[r])
              THEN /\ pc' = [pc EXCEPT ![r] = "in_barrier2"]
                   /\ coll' = Append2(coll, r, Barrier)
              ELSE /\ pc' = [pc EXCEPT ![r] = "register"]
                   /\ UNCHANGED coll
    /\ UNCHANGED <<trainerVars, err, last_checkpoint_batch, mlflow_loggers,
                   cur_dir, tmpdirs, cyclesAtBatch, clockVars>>

\* Variant: the tracked list is scoped to the newest child, each start
\* replaces what was tracked.
RegisterLogger_TrackLatest(r) ==
    /\ pc[r] = "register"
    /\ LET i == reg_i[r]
           local_save_path == <<cur_dir[r], i>>
       IN  /\ \E license \in BOOLEAN :
                ops' = [ops EXCEPT ![r] =
                    @ \o << Op("save_model", cur_dir[r], i, "") >>
                      \o (IF license
                          THEN << Op("license", cur_dir[r], i, "LICENSE"),
                                  Op("log_artifact", cur_dir[r], i, "LICENSE") >>
                          ELSE << Op("license", cur_dir[r], i, "") >>)
                      \o << Op("pre_register_edit", cur_dir[r], i, ""),
                            Op("start", cur_dir[r], i, ""),
                            Op("append", cur_dir[r], i, "") >>]
           /\ child_processes' = [child_processes EXCEPT ![r] =
                  << [model_uri |-> local_save_path, alive |-> TRUE,
                      outcome |-> None] >>]
           /\ temp_save_dir' = [temp_save_dir EXCEPT ![r] =
                  IF cfg.remote THEN cur_dir[r] ELSE @]
           /\ reg_i' = [reg_i EXCEPT ![r] = i + 1]
           /\ IF i + 1 = Len(mlflow_loggers[r])
              THEN /\ pc' = [pc EXCEPT ![r] = "in_barrier2"]
                   /\ coll' = Append2(coll, r, Barrier)
              ELSE /\ pc' = [pc EXCEPT ![r] = "register"]
                   /\ UNCHANGED coll
    /\ UNCHANGED <<trainerVars, err, last_checkpoint_batch, mlflow_loggers,
                   cur_dir, tmpdirs, cyclesAtBatch, clockVars>>

\* Lines 604-676: one iteration of the mlflow_loggers loop; after the last
\* one, the barrier of line 681.
RegisterLogger(r) ==
    /\ pc[r] = "register"
    /\ LET i == reg_i[r]
           local_save_path == <<cur_dir[r], i>>
       IN  /\ \E license \in BOOLEAN :
                ops' = [ops EXCEPT ![r] =
                    @ \o << Op("save_model", cur_dir[r], i, "") >>
                      \o (IF license
                          THEN << Op("license", cur_dir[r], i, "LICENSE"),
                                  Op("log_artifact", cur_dir[r], i, "LICENSE") >>
                          ELSE << Op("license", cur_dir[r], i, "") >>)
                      \o << Op("pre_register_edit", cur_dir[r], i, ""),
                            Op("start", cur_dir[r], i, ""),
                            Op("append", cur_dir[r], i, "") >>]
           /\ child_processes' = Append2(child_processes, r,
                  [model_uri |-> local_save_path, alive |-> TRUE, outcome |-> None])
           /\ temp_save_dir' = [temp_save_dir EXCEPT ![r] =
                  IF cfg.remote THEN cur_dir[r] ELSE @]
           /\ reg_i' = [reg_i EXCEPT ![r] = i + 1]
           /\ IF i + 1 = Len(mlflow_loggers[r])
              THEN /\ pc' = [pc EXCEPT ![r] = "in_barrier2"]
                   /\ coll' = Append2(coll, r, Barrier)
              ELSE /\ pc' = [pc EXCEPT ![r] = "register"]
                   /\ UNCHANGED coll
    /\ UNCHANGED <<trainerVars, err, last_checkpoint_batch, mlflow_loggers,
                   cur_dir, tmpdirs, cyclesAtBatch, clockVars>>

\* mlflow_logger.save_model raising.
RegisterRaises(r) ==
    /\ pc[r] = "register"
    /\ err' = [err EXCEPT ![r] = "IOError"]
    /\ pc' = [pc EXCEPT ![r] = "raised"]
    /\ UNCHANGED <<trainerVars, selfVars, cycleVars, ops, coll, clockVars>>

\* Lines 677-681: no registration in this cycle; the fresh directory goes,
\* then the barrier.
CleanTempDir(r) ==
    /\ pc[r] = "registry"
    /\ ~RegisterNow
    /\ IF cfg.remote
       THEN /\ tmpdirs' = [tmpdirs EXCEPT ![r] = @ \ {cur_dir[r]}]
            /\ ops' = Append2(ops, r, Op("rmtree", cur_dir[r], 0, ""))
       ELSE UNCHANGED <<tmpdirs, ops>>
    /\ coll' = Append2(coll, r, Barrier)
    /\ pc' = [pc EXCEPT ![r] = "in_barrier2"]
    /\ UNCHANGED <<trainerVars, err, selfVars, cur_dir, reg_i,
                   cyclesAtBatch, clockVars>>

\* Line 681: dist.barrier() returns; _save_checkpoint and run_event return.
BarrierLeave2(r) ==
    /\ pc[r] = "in_barrier2"
    /\ CollectiveComplete(r)
    /\ pc' = [pc EXCEPT ![r] = "idle"]
    /\ cur_dir' = [cur_dir EXCEPT ![r] = NoDir]
    /\ reg_i' = [reg_i EXCEPT ![r] = 0]
    /\ UNCHANGED <<trainerVars, err, selfVars, tmpdirs, cyclesAtBatch, ops, coll,
                   clockVars>>

\* ------------------------------------------------------- FIT_END, the wait
\* The loop ends; lines 311-313 remove self.temp_save_dir and run_event returns.
PollDone(r) ==
    /\ pc[r] = "in_reduce"
    /\ CollectiveComplete(r)
    /\ AllChildProcessesDone(r)
    /\ IF temp_save_dir[r] # NoDir
       THEN /\ tmpdirs' = [tmpdirs EXCEPT ![r] = @ \ {temp_save_dir[r]}]
            /\ ops' = Append2(ops, r, Op("rmtree", temp_save_dir[r], 0, ""))
       ELSE UNCHANGED <<tmpdirs, ops>>
    /\ pc' = [pc EXCEPT ![r] = "idle"]
    /\ UNCHANGED <<trainerVars, err, selfVars, cur_dir, reg_i,
                   cyclesAtBatch, coll, clockVars>>

\* Lines 304-308: outstanding work, and wait_time > timeout.
PollTimeout(r) ==
    /\ pc[r] = "in_reduce"
    /\ CollectiveComplete(r)
    /\ ~AllChildProcessesDone(r)
    /\ TimedOut(r)
    /\ err' = [err EXCEPT ![r] = "TimeoutError"]
    /\ pc' = [pc EXCEPT ![r] = "raised"]
    /\ UNCHANGED <<trainerVars, selfVars, cycleVars, ops, coll, clockVars>>

\* Line 309: outstanding work within the timeout; time.sleep(2) starts.
PollSleep(r) ==
    /\ pc[r] = "in_reduce"
    /\ CollectiveComplete(r)
    /\ ~AllChildProcessesDone(r)
    /\ ~TimedOut(r)
    /\ wake' = [wake EXCEPT ![r] = now + SleepSeconds]
    /\ pc' = [pc EXCEPT ![r] = "sleep"]
    /\ UNCHANGED <<trainerVars, err, selfVars, cycleVars, ops, coll, now, wait_start>>

\* time.sleep(2) returns and the next poll starts.
SleepDone(r) ==
    /\ pc[r] = "sleep"
    /\ now >= wake[r]
    /\ Len(coll[r]) < MaxPolls
    /\ coll' = Append2(coll, r, Poll(r))
    /\ pc' = [pc EXCEPT ![r] = "in_reduce"]
    /\ UNCHANGED <<trainerVars, err, selfVars, cycleVars, ops, clockVars>>

\* ----------------------------------------------------------- environment
\* How far the clock is seen to advance between two readings.
Delays == {SleepSeconds, timeout, timeout + SleepSeconds}

\* Time passes while a rank sleeps: the clock moves on by the sleep's length,
\* by exactly the timeout, or by more than the timeout.
Tick ==
    /\ \E r \in Ranks : pc[r] = "sleep" /\ now < wake[r]
    /\ \E d \in Delays : now' = now + d
    /\ UNCHANGED <<trainerVars, pc, err, selfVars, cycleVars, ops, coll,
                   wait_start, wake>>

\* How a child process ends: register_model_with_run_id returned, or it
\* raised and the exception left _register_model_with_run_id_multiprocess.
Outcomes == {"returned", "raised"}

\* A registration child process ends (is_alive() turns false).
ChildExit(r) ==
    /\ \E k \in 1 .. Len(child_processes[r]), outcome \in Outcomes :
        /\ child_processes[r][k].alive
        /\ child_processes' = [child_processes EXCEPT
               ![r][k].alive = FALSE, ![r][k].outcome = outcome]
    /\ UNCHANGED <<trainerVars, pc, err, last_checkpoint_batch, mlflow_loggers,
                   temp_save_dir, cycleVars, ops, coll, clockVars>>

\* ------------------------------------------------------------------ Next
Next ==
    \/ DeliverInit
    \/ DeliverFitStart
    \/ NextBatch
    \/ NextEpoch
    \/ DeliverFitEnd
    \/ \E r \in Ranks :
        \/ SaveCheckpointBegin(r)
        \/ InitEvent(r)
        \/ InitRaises(r)
        \/ FitEndBegin(r)
        \/ IgnoreEvent(r)
        \/ RehydrateAndSave(r)
        \/ RehydrateRaises(r)
        \/ UploadFiles(r)
        \/ UploadRaises(r)
        \/ BarrierLeave1(r)
        \/ RegistryBegin(r)
        \/ RegisterLogger(r)
        \/ RegisterRaises(r)
        \/ CleanTempDir(r)
        \/ BarrierLeave2(r)
        \/ PollDone(r)
        \/ PollTimeout(r)
        \/ PollSleep(r)
        \/ SleepDone(r)
        \/ ChildExit(r)
    \/ Tick

Spec == Init /\ [][Next]_vars

\* A step of rank r in _save_checkpoint that does not raise.
CycleStepOf(r) ==
    \/ SaveCheckpointBegin(r)
    \/ RehydrateAndSave(r)
    \/ UploadFiles(r)
    \/ BarrierLeave1(r)
    \/ RegistryBegin(r)
    \/ RegisterLogger(r)
    \/ CleanTempDir(r)
    \/ BarrierLeave2(r)

\* A training run in which every rank's process keeps running: a rank that
\* can go on with _save_checkpoint does.
FairSpec == Spec /\ \A r \in Ranks : WF_vars(CycleStepOf(r))

\* ====================================================================
\* Properties
\* ====================================================================
HasOp(r, name) == \E k \in 1 .. Len(ops[r]) : ops[r][k].op = name

CountOp(r, name) == Cardinality({k \in 1 .. Len(ops[r]) : ops[r][k].op = name})

Kinds(r) == [k \in 1 .. Len(coll[r]) |-> coll[r][k].kind]

IsPrefix(s, t) == Len(s) <= Len(t) /\ \A k \in 1 .. Len(s) : s[k] = t[k]

\* Rank r has entered _save_checkpoint in the event being handled.
CycleStarted(r) == Len(coll[r]) > 0 /\ coll[r][1].kind = "gather"

\* Rank r has left the first barrier of the running cycle.
PassedBarrier1(r) ==
    /\ CycleStarted(r)
    /\ pc[r] \in {"registry", "register", "in_barrier2", "idle"}

\* Rank r has returned from _save_checkpoint in the event being handled.
CycleReturned(r) == CycleStarted(r) /\ pc[r] = "idle"

\* Rank r has returned normally from the FIT_END branch.
FitEndReturned(r) == stage = "end" /\ pc[r] = "idle"

RegistryOps == {"transform_model_pre_registration", "save_model", "license",
                "log_artifact", "pre_register_edit", "start", "append"}

CoordinatorOps == RegistryOps \cup {"load_state_dict", "save_pretrained", "upload_file"}

DiskOps == {"mkdtemp", "save_pretrained", "save_model", "rmtree"}

\* C1: the checkpoint cycle runs at most once per batch index: no rank runs
\* _save_checkpoint twice while timestamp.batch keeps its value, and an event
\* the scheduler approves that takes no checkpoint is one whose batch index
\* already had exactly one.
C1_OncePerBatch ==
    \A r \in Ranks :
        /\ cyclesAtBatch[r] <= 1
        /\ (/\ ~ElapsedIsNone
            /\ CheckInterval
            /\ pc[r] # "run_event"
            /\ ~CycleStarted(r)) =>
                /\ cyclesAtBatch[r] = 1
                /\ last_checkpoint_batch[r] = ts.batch

C1_Witness ==
    /\ ev.type = "EPOCH_CHECKPOINT"
    /\ ~ElapsedIsNone
    /\ CheckInterval
    /\ \A r \in Ranks :
        /\ pc[r] = "idle"
        /\ ~CycleStarted(r)
        /\ cyclesAtBatch[r] = 1
        /\ last_checkpoint_batch[r] = ts.batch

\* C2: while get_elapsed_duration() is None no rank starts a checkpoint
\* cycle, whatever the event and the scheduler's answer; an INIT event still
\* gets the INIT handling and a FIT_END event the FIT_END wait.
C2_NoElapsedNoCycle ==
    \A r \in Ranks :
        (ElapsedIsNone /\ pc[r] # "run_event" /\ stage # "new") =>
            /\ ~CycleStarted(r)
            /\ ev.type = "INIT" => (HasOp(r, "using_peft") \/ err[r] = "ValueError")
            /\ ev.type = "FIT_END" =>
                   Len(coll[r]) > 0 /\ coll[r][1].kind = "all_reduce"

C2_Witness ==
    /\ ElapsedIsNone
    /\ ev.type = "BATCH_CHECKPOINT"
    /\ ev.due
    /\ \A r \in Ranks : pc[r] = "idle" /\ ops[r] = <<>> /\ coll[r] = <<>>

\* C3: registry saving, license handling and the spawn of a registration
\* child process happen only in a cycle for which a registry name is
\* configured and _is_last_batch(state) holds.
C3_RegisterOnlyLast ==
    \A r \in Ranks :
        (\E n \in RegistryOps : HasOp(r, n)) =>
            /\ cfg.mlflow_registered_model_name # None
            /\ IsLastBatch

C3_Witness ==
    /\ HasOp(0, "start")
    /\ Len(child_processes[0]) > 0
    /\ CycleReturned(0)

\* C4: a rank returns normally from FIT_END only after a poll round in which
\* every rank reported no live child process; every rank takes part in that
\* round and in no later one; a rank about to poll again has slept for at
\* least SleepSeconds since its previous poll.
C4_WaitTogether ==
    \A r \in Ranks :
        /\ FitEndReturned(r) =>
              /\ Len(coll[r]) > 0
              /\ \A x \in Ranks :
                    /\ Len(coll[x]) = Len(coll[r])
                    /\ coll[x][Len(coll[r])].val = 0
                    /\ coll[x][Len(coll[r])].kind = "all_reduce"
              /\ err[r] = None
        /\ (stage = "end" /\ pc[r] = "in_reduce" /\ Len(coll[r]) > 1) =>
              /\ now >= wake[r]
              /\ wake[r] >= wait_start[r] + SleepSeconds

C4_Witness ==
    /\ \A r \in Ranks : FitEndReturned(r) /\ Len(coll[r]) = MaxPolls
    /\ Len(child_processes[0]) = 2
    /\ now < timeout

\* C5: TimeoutError is raised only by a poll that found outstanding work
\* with more than timeout seconds gone since wait_start, and such a poll does
\* raise; a poll at wait_time 0 or one that finds all tasks done never raises.
C5_TimeoutOnlyAfter ==
    [][\A r \in Ranks :
          /\ (err'[r] = "TimeoutError" /\ err[r] = None) =>
                /\ now - wait_start[r] > timeout
                /\ pc[r] = "in_reduce"
                /\ \E x \in Ranks : coll[x][Len(coll[r])].val = 1
          /\ (/\ pc[r] = "in_reduce"
              /\ pc'[r] # "in_reduce"
              /\ now - wait_start[r] > timeout
              /\ \E x \in Ranks : coll[x][Len(coll[r])].val = 1) =>
                err'[r] = "TimeoutError"]_vars

C5_Witness ==
    /\ err[0] = "TimeoutError"
    /\ NotDone(0)
    /\ Len(coll[0]) > 1

\* C6: the temporary directory of a live registration child process exists;
\* self.temp_save_dir is gone only after a FIT_END poll round reported all
\* tasks done, and is still there after TimeoutError; a removal inside a
\* cycle removes the directory that cycle created.
C6_DirOutlivesTasks ==
    \A r \in Ranks :
        /\ \A k \in 1 .. Len(child_processes[r]) :
              (child_processes[r][k].alive
                  /\ child_processes[r][k].model_uri[1][1] = "tmp") =>
                      child_processes[r][k].model_uri[1] \in tmpdirs[r]
        /\ (temp_save_dir[r] # NoDir /\ temp_save_dir[r] \notin tmpdirs[r]) =>
              /\ FitEndReturned(r)
              /\ \A x \in Ranks : coll[x][Len(coll[r])].val = 0
        /\ (err[r] = "TimeoutError" /\ temp_save_dir[r] # NoDir) =>
              temp_save_dir[r] \in tmpdirs[r]
        /\ (CycleStarted(r) /\ HasOp(r, "rmtree")) =>
              /\ ops[r][1].op = "mkdtemp"
              /\ \A k \in 1 .. Len(ops[r]) :
                    ops[r][k].op = "rmtree" => ops[r][k].dir = ops[r][1].dir
              /\ ~HasOp(r, "start")

C6_Witness ==
    /\ err[0] = "TimeoutError"
    /\ temp_save_dir[0] \in tmpdirs[0]
    /\ \E k \in 1 .. Len(child_processes[0]) :
          /\ child_processes[0][k].alive
          /\ child_processes[0][k].model_uri[1] = temp_save_dir[0]

\* C7: once FIT_END has returned normally on every rank, no temporary
\* directory created by the callback exists on any rank; and a cycle that
\* does no registration leaves none of its own behind.
C7_NoTempDirLeft ==
    /\ (\A r \in Ranks : FitEndReturned(r)) => \A r \in Ranks : tmpdirs[r] = {}
    /\ \A r \in Ranks :
          (CycleReturned(r) /\ ~RegisterNow) => tmpdirs[r] = {}

\* C8: a cycle has the collective calls gather, barrier, barrier in this
\* order on every rank; a rank past the first barrier finds rank 0's model
\* and tokenizer written and every upload issued; a rank that has returned
\* from the cycle finds rank 0's registry work or directory removal finished.
C8_TwoBarriers ==
    \A r \in Ranks :
        /\ CycleStarted(r) => IsPrefix(Kinds(r), <<"gather", "barrier", "barrier">>)
        /\ CycleReturned(r) => Kinds(r) = <<"gather", "barrier", "barrier">>
        /\ PassedBarrier1(r) =>
              /\ HasOp(0, "save_pretrained")
              /\ CountOp(0, "upload_file") = (IF cfg.remote THEN Len(SavedFiles) ELSE 0)
              /\ pc[0] \notin {"run_event", "rehydrate", "upload"}
        /\ CycleReturned(r) =>
              /\ pc[0] \in {"in_barrier2", "idle"}
              /\ RegisterNow =>
                    /\ CountOp(0, "start") = Len(mlflow_loggers[0])
                    /\ CountOp(0, "append") = Len(mlflow_loggers[0])
              /\ (~RegisterNow /\ cfg.remote) => HasOp(0, "rmtree")

C8_Witness ==
    /\ \A r \in Ranks : CycleReturned(r)
    /\ HasOp(0, "upload_file")
    /\ CountOp(0, "start") = 2

\* C9: the coordinator's operations (rehydration, save_pretrained, uploads,
\* registry saves, spawns) appear on rank 0 only; on every other rank
\* self.child_processes stays empty and self.temp_save_dir stays None.
C9_CoordinatorOnly ==
    \A r \in Ranks \ {0} :
        /\ child_processes[r] = <<>>
        /\ temp_save_dir[r] = NoDir
        /\ \A n \in CoordinatorOps : ~HasOp(r, n)

C9_Witness ==
    /\ Len(child_processes[0]) > 0
    /\ temp_save_dir[0] # NoDir
    /\ HasOp(0, "upload_file")
    /\ \A r \in Ranks \ {0} : CycleReturned(r)

\* C10: a rank other than 0 creates, writes and removes no local file or
\* directory during a cycle; its only operations are the gather and the
\* two barriers.
C10_OnlyRank0Disk ==
    \A r \in Ranks \ {0} :
        /\ \A n \in DiskOps : ~HasOp(r, n)
        /\ tmpdirs[r] = {}

\* The three cases of _is_last_batch, read off the timestamp.
ElapsedCase == ElapsedGE1

\* Interval in batches, max_duration in epochs, and the batch just trained
\* closes the epoch numbered e (epochs numbered from 0).
ClosesEpoch(e) ==
    /\ cfg.save_interval.unit = "ba"
    /\ cfg.max_duration.unit = "ep"
    /\ ts.epoch = e
    /\ ts.batch_in_epoch = cfg.dataloader_len

\* Interval of exactly one duration, max_duration in epochs, and the batch
\* index a multiple of max_epochs * steps_per_epoch.
WholeDurationCase ==
    /\ cfg.save_interval.unit = "dur"
    /\ cfg.save_interval.num = cfg.save_interval.den
    /\ cfg.max_duration.unit = "ep"
    /\ ts.batch % (cfg.max_duration.value * cfg.dataloader_len) = 0

\* C11 as stated: _is_last_batch is true exactly in case (a), (b) or (c),
\* (b) being the last batch of the second-to-last epoch.
C11_LastBatchAsStated ==
    ~ElapsedIsNone =>
        (IsLastBatch <=>
            \/ ElapsedCase
            \/ ClosesEpoch(cfg.max_duration.value - 2)
            \/ WholeDurationCase)

\* C11: _is_last_batch is true exactly in case (a), (b) or (c), (b) being
\* the last batch of the final epoch: the epoch counter equals
\* max_epochs - 1 and batch_in_epoch equals dataloader_len.
C11_LastBatchCases ==
    ~ElapsedIsNone =>
        (IsLastBatch <=>
            \/ ElapsedCase
            \/ ClosesEpoch(cfg.max_duration.value - 1)
            \/ WholeDurationCase)

C11_Witness ==
    /\ ClosesEpoch(cfg.max_duration.value - 1)
    /\ ~ElapsedCase
    /\ cfg.max_duration.value = 2
    /\ pc[0] = "register"

\* The run is configured with max_duration in epochs and save_interval '1dur'.
WholeDurationRun ==
    /\ cfg.max_duration.unit = "ep"
    /\ cfg.save_interval.unit = "dur"
    /\ cfg.save_interval.num = cfg.save_interval.den

\* C12: with max_duration in epochs and save_interval '1dur', at every
\* timestamp of the training run _is_last_batch is true exactly when the
\* batch index is a multiple of max_epochs * steps_per_epoch.
C12_WholeDurationModulo ==
    (WholeDurationRun /\ ~ElapsedIsNone /\ stage \in {"fit", "end"}) =>
        /\ ts.batch \in 0 .. (cfg.max_duration.value * cfg.dataloader_len)
        /\ IsLastBatch <=>
              ts.batch % (cfg.max_duration.value * cfg.dataloader_len) = 0

C12_Witness ==
    /\ WholeDurationRun
    /\ cfg.max_duration.value * cfg.dataloader_len = 2
    /\ ts.batch = 2
    /\ ts.epoch < cfg.max_duration.value
    /\ pc[0] = "register"

\* Some registration child of rank 0 ended because its registry call raised.
SomeChildFailed ==
    \E k \in 1 .. Len(child_processes[0]) : child_processes[0][k].outcome = "raised"

\* C15 as stated: a registration task whose registry call failed is never
\* seen as done, so FIT_END does not return normally once a task has failed.
C15_FailedNeverDone ==
    SomeChildFailed => \A r \in Ranks : ~FitEndReturned(r)

\* C15: a child counts as outstanding exactly while its process is alive,
\* however it ended: a poll reports outstanding work iff some child of
\* the rank is alive, and FIT_END returns normally only when no child of any
\* rank is alive.
C15_EndedChildIsDone ==
    [][\A r \in Ranks :
          /\ (/\ Len(coll'[r]) = Len(coll[r]) + 1
              /\ coll'[r][Len(coll'[r])].kind = "all_reduce") =>
                (coll'[r][Len(coll'[r])].val = 1 <=>
                    \E k \in 1 .. Len(child_processes[r]) :
                        child_processes[r][k].alive)
          /\ (pc[r] = "in_reduce" /\ pc'[r] = "idle") =>
                \A x \in Ranks : \A k \in 1 .. Len(child_processes[x]) :
                    ~child_processes[x][k].alive]_vars

C15_Witness ==
    /\ \A r \in Ranks : FitEndReturned(r) /\ err[r] = None
    /\ SomeChildFailed
    /\ \E k \in 1 .. Len(child_processes[0]) : child_processes[0][k].outcome = "returned"

\* What INIT must reject: a model that is not a HuggingFaceModel, or a
\* registry name without an MLFlowLogger among logger.destinations.
InitMustRaise ==
    \/ ~ev.model_ok
    \/ cfg.mlflow_registered_model_name # None /\ ev.destinations = 0

\* C16: handling INIT raises ValueError exactly for an unsupported model
\* wrapper or a registry name without MLFlowLogger, and returns normally
\* otherwise; ValueError is raised by no later event; a checkpoint cycle runs
\* only after INIT returned normally on every rank, so never with a registry
\* name and an empty self.mlflow_loggers.
C16_ConfigErrorsAtInit ==
    /\ [][\A r \in Ranks :
             (ev.type = "INIT" /\ pc[r] = "run_event" /\ pc'[r] # "run_event") =>
                 IF InitMustRaise
                 THEN err'[r] = "ValueError" /\ pc'[r] = "raised"
                 ELSE err'[r] = None /\ pc'[r] = "idle"]_vars
    /\ [](\A r \in Ranks :
             /\ err[r] = "ValueError" => (stage = "init" /\ ev.type = "INIT")
             /\ CycleStarted(r) =>
                   /\ stage = "fit"
                   /\ \A x \in Ranks : err[x] # "ValueError"
                   /\ cfg.mlflow_registered_model_name # None =>
                          Len(mlflow_loggers[r]) > 0)

C16_Witness ==
    /\ \A r \in Ranks : err[r] = "ValueError" /\ pc[r] = "raised"
    /\ ev.model_ok
    /\ ev.destinations = 0
    /\ cfg.mlflow_registered_model_name = ""

\* ------------------------------------------------ functions on their own
\* self.dtype: the torch dtype of the precision argument.
Precisions == {"float32", "float16", "bfloat16"}
DtypeTable ==
    "float32" :> "torch.float32" @@ "float16" :> "torch.float16"
        @@ "bfloat16" :> "torch.bfloat16"

\* Entries of a module's state dict before the hooks ran: a DTensor shard or
\* a plain tensor, of a floating or an integer dtype, on the accelerator; or
\* a value that is no tensor (the extra state of a TransformerEngine module,
\* an io.BytesIO outside onnx_export, see lines 548-554).
TorchDtypes == {"torch.float32", "torch.bfloat16", "torch.int64"}
ParamKeys == {"wte.weight", "norm._extra_state"}
ExtraEntry == [kind |-> "BytesIO", dtype |-> "", device |-> "cpu"]
ParamEntries ==
    [kind : {"DTensor", "Tensor"}, dtype : TorchDtypes, device : {"cuda"}]
        \cup {ExtraEntry}
NoneEntry == [kind |-> "None", dtype |-> "", device |-> ""]
EmptyDict == [k \in {} |-> NoneEntry]

\* One pass of the loop of tensor_hook over the value at one key.
HookEntry(r, t, dtype) ==
    LET full == IF t.kind = "DTensor"
                THEN IF IsCoordinator(r)
                     THEN [kind |-> "Tensor", dtype |-> t.dtype, device |-> "cpu"]
                     ELSE NoneEntry
                ELSE t
    IN  IF full.kind \in {"Tensor", "DTensor"}
        THEN [full EXCEPT !.dtype = dtype]
        ELSE full

\* Variant: only the gathered DTensors are cast.
TensorHook_CastGatheredOnly(r, sd, dtype) ==
    LET inplace == [k \in DOMAIN sd |->
                       IF sd[k].kind = "DTensor"
                       THEN HookEntry(r, sd[k], dtype) ELSE sd[k]]
    IN  [inplace |-> inplace,
         returned |-> IF IsCoordinator(r) THEN inplace ELSE EmptyDict]

\* tensor_hook(module, state_dict, prefix): the dict as changed in place and
\* the dict returned.
TensorHook(r, sd, dtype) ==
    LET inplace == [k \in DOMAIN sd |-> HookEntry(r, sd[k], dtype)]
    IN  [inplace |-> inplace,
         returned |-> IF IsCoordinator(r) THEN inplace ELSE EmptyDict]

\* get_model_state_dict with the hook registered on every module: the hook
\* of a submodule runs on the shared dict, then the hook of the root, whose
\* return value is the state dict.
GetModelStateDict(r, sd, dtype) ==
    TensorHook(r, TensorHook(r, sd, dtype).inplace, dtype).returned

GatherCalls ==
    [fn : {"get_model_state_dict"}, rank : Ranks, precision : Precisions,
     state_dict : [ParamKeys -> ParamEntries]]

CallGather ==
    /\ arg.fn = "get_model_state_dict"
    /\ ~res.done
    /\ res' = Result(GetModelStateDict(arg.rank, arg.state_dict,
                                       DtypeTable[arg.precision]))
    /\ UNCHANGED <<arg, cfg, durKnown, ts, ev, stage, pc, err, selfVars,
                   cycleVars, ops, coll, clockVars>>

\* C17 as stated: after the gather, on rank 0 every key of the state dict
\* maps to a plain tensor of the configured dtype, whether the parameter was
\* a DTensor or not; on every other rank the state dict is empty.
C17_AllTensors ==
    (arg.fn = "get_model_state_dict" /\ res.done) =>
        IF arg.rank = 0
        THEN /\ DOMAIN res.val = DOMAIN arg.state_dict
             /\ \A k \in DOMAIN res.val :
                   /\ res.val[k].kind = "Tensor"
                   /\ res.val[k].dtype = DtypeTable[arg.precision]
        ELSE DOMAIN res.val = {}

\* C17: after the gather, on rank 0 the state dict has every key, each
\* value that was a tensor or a DTensor is a plain tensor of the configured
\* dtype (a gathered DTensor on the cpu), and each value that was no tensor
\* is kept as it was; on every other rank the state dict is empty.
C17_GatheredDict ==
    (arg.fn = "get_model_state_dict" /\ res.done) =>
        IF arg.rank = 0
        THEN /\ DOMAIN res.val = DOMAIN arg.state_dict
             /\ \A k \in DOMAIN res.val :
                   IF arg.state_dict[k].kind \in {"Tensor", "DTensor"}
                   THEN /\ res.val[k].kind = "Tensor"
                        /\ res.val[k].dtype = DtypeTable[arg.precision]
                        /\ arg.state_dict[k].kind = "DTensor" =>
                               res.val[k].device = "cpu"
                   ELSE res.val[k] = arg.state_dict[k]
        ELSE DOMAIN res.val = {}

C17_Witness ==
    /\ arg.fn = "get_model_state_dict"
    /\ res.done
    /\ arg.rank = 0
    /\ arg.precision = "bfloat16"
    /\ arg.state_dict["wte.weight"].kind = "DTensor"
    /\ arg.state_dict["wte.weight"].dtype = "torch.float32"
    /\ arg.state_dict["norm._extra_state"] = ExtraEntry
    /\ res.val["wte.weight"].dtype = "torch.bfloat16"

\* A PretrainedConfig on the heap: the config object holds references to its
\* attn_config and ffn_config dicts (0: no such attribute).
ModelTypes == {"mpt", "llama"}
FfnConfigs ==
    { [has_moe |-> FALSE, moe_world_size |-> 0],
      [has_moe |-> TRUE, moe_world_size |-> 1],
      [has_moe |-> TRUE, moe_world_size |-> 8] }
NoFfn == [absent |-> TRUE]
ConfigValues ==
    [model_type : ModelTypes, init_device : {"meta", "cpu"},
     attn_config : [attn_impl : {"flash", "torch"}],
     ffn_config : FfnConfigs \cup {NoFfn}]

\* The heap holding one config of the given value, at address 1.
HeapOf(v) ==
    LET base == 1 :> [model_type |-> v.model_type, init_device |-> v.init_device,
                      attn_config |-> 2,
                      ffn_config |-> IF v.ffn_config = NoFfn THEN 0 ELSE 3]
                @@ 2 :> v.attn_config
    IN  IF v.ffn_config = NoFfn THEN base ELSE base @@ 3 :> v.ffn_config

\* The value of the config at address a, nested dicts included.
ValueAt(h, a) ==
    [model_type |-> h[a].model_type, init_device |-> h[a].init_device,
     attn_config |-> h[h[a].attn_config],
     ffn_config |-> IF h[a].ffn_config = 0 THEN NoFfn ELSE h[h[a].ffn_config]]

\* The next unused address.
Fresh(h) == Cardinality(DOMAIN h) + 1

\* Variant: copy.copy, the nested dicts are shared with the original.
DeepCopy_Shallow(h, a) ==
    LET n == Fresh(h)
    IN  [heap |-> h @@ n :> h[a], ret |-> n]

\* copy.deepcopy(original_config): new objects for the config and its dicts.
DeepCopy(h, a) ==
    LET n == Fresh(h)
        withAttn == h @@ (n + 1) :> h[h[a].attn_config]
        withFfn == IF h[a].ffn_config = 0 THEN withAttn
                   ELSE withAttn @@ (n + 2) :> h[h[a].ffn_config]
    IN  [heap |-> withFfn @@ n :> [h[a] EXCEPT
                     !.attn_config = n + 1,
                     !.ffn_config = IF h[a].ffn_config = 0 THEN 0 ELSE n + 2],
         ret |-> n]

\* self.transform_config(original_config): the heap afterwards and the
\* address returned.
TransformConfig(h, a) ==
    LET cp == DeepCopy(h, a)
        c == cp.ret
        h1 == cp.heap
    IN  IF h1[c].model_type = "mpt"
        THEN LET h2 == [h1 EXCEPT ![h1[c].attn_config].attn_impl = "torch",
                                  ![c].init_device = "cpu"]
                 f == h2[c].ffn_config
             IN  [heap |-> IF f # 0 /\ h2[f].has_moe
                           THEN [h2 EXCEPT ![f].moe_world_size = 1]
                           ELSE h2,
                  ret |-> c]
        ELSE [heap |-> h1, ret |-> c]

TransformCalls == [fn : {"transform_config"}, config : ConfigValues]

\* transform_config on a config, then on its own result.
CallTransformConfig ==
    /\ arg.fn = "transform_config"
    /\ ~res.done
    /\ LET h0 == HeapOf(arg.config)
           t1 == TransformConfig(h0, 1)
           t2 == TransformConfig(t1.heap, t1.ret)
       IN  res' = Result([once |-> ValueAt(t1.heap, t1.ret),
                          twice |-> ValueAt(t2.heap, t2.ret),
                          arg_after |-> ValueAt(t1.heap, 1),
                          once_after |-> ValueAt(t2.heap, t1.ret),
                          same_object |-> t1.ret = 1])
    /\ UNCHANGED <<arg, cfg, durKnown, ts, ev, stage, pc, err, selfVars,
                   cycleVars, ops, coll, clockVars>>

\* ------------------------------------------- rehydration and the stamping
\* mlflow_logging_config as passed to the constructor: with or without a
\* 'metadata' dict, which has or has not a 'pretrained_model_name'.
PretrainedNames == {None, "org/model"}
LoggingConfigs == [has_metadata : BOOLEAN, pretrained_model_name : PretrainedNames]

\* self.pretrained_model_name as __init__ sets it: the constructor puts a
\* 'metadata' entry (the passed one, or {}) when a registry name is given.
PretrainedModelName(registered, lc) ==
    LET metadata_present == registered \/ lc.has_metadata
        metadata_name == IF lc.has_metadata THEN lc.pretrained_model_name ELSE None
    IN  IF metadata_present THEN metadata_name ELSE None

\* Adapter names of a peft model.
Adapters == {"default", "other"}
LocalPath == "local/path"

\* A new model instance on the heap at address a: the model, and for a peft
\* model its base_model and its peft_config dict.
Construct(a, using_peft, adapters) ==
    IF using_peft
    THEN a :> [name_or_path |-> LocalPath, base_model |-> a + 1, peft_config |-> a + 2]
         @@ (a + 1) :> [name_or_path |-> LocalPath]
         @@ (a + 2) :> [cfgs |-> [k \in adapters |->
                                     [base_model_name_or_path |-> LocalPath]]]
    ELSE a :> [name_or_path |-> LocalPath, base_model |-> 0, peft_config |-> 0]

\* self.transform_model_and_tokenizer: the base class returns its argument
\* ("identity"); a subclass may return another model object ("replace").
TransformModel(h, m, hook, using_peft, adapters) ==
    IF hook = "identity"
    THEN [heap |-> h, ret |-> m]
    ELSE [heap |-> h @@ Construct(m + 3, using_peft, adapters), ret |-> m + 3]

\* Variant: the freshly built instance is stamped, not what the hook returned.
Stamp_Constructed(h, m, name, using_peft) ==
    IF name = None THEN h
    ELSE LET h1 == [h EXCEPT ![1].name_or_path = name]
         IN  IF using_peft
             THEN [h1 EXCEPT
                     ![h1[1].base_model].name_or_path = name,
                     ![h1[1].peft_config].cfgs =
                         [k \in DOMAIN @ |->
                             [@[k] EXCEPT !.base_model_name_or_path = name]]]
             ELSE h1

\* Lines 541-548: the pretrained model name is set on the model m.
Stamp(h, m, name, using_peft) ==
    IF name = None THEN h
    ELSE LET h1 == [h EXCEPT ![m].name_or_path = name]
         IN  IF using_peft
             THEN [h1 EXCEPT
                     ![h1[m].base_model].name_or_path = name,
                     ![h1[m].peft_config].cfgs =
                         [k \in DOMAIN @ |->
                             [@[k] EXCEPT !.base_model_name_or_path = name]]]
             ELSE h1

\* What a model object holds, as save_pretrained finds it.
ModelAt(h, m) ==
    [name_or_path |-> h[m].name_or_path,
     base_name_or_path |->
         IF h[m].base_model = 0 THEN None ELSE h[h[m].base_model].name_or_path,
     adapter_base_names |->
         IF h[m].peft_config = 0 THEN {}
         ELSE {h[h[m].peft_config].cfgs[k].base_model_name_or_path :
                  k \in DOMAIN h[h[m].peft_config].cfgs}]

\* Lines 509-556 on rank 0: build, load_state_dict, hook, stamping, save.
\* saved is the model save_pretrained is called on, the one the hook
\* returned; built is the instance built at first.
Rehydrate(name, using_peft, adapters, hook) ==
    LET h0 == Construct(1, using_peft, adapters)
        t == TransformModel(h0, 1, hook, using_peft, adapters)
        h2 == Stamp(t.heap, t.ret, name, using_peft)
    IN  [at_hook |-> ModelAt(t.heap, t.ret),
         saved |-> ModelAt(h2, t.ret),
         built |-> ModelAt(h2, 1),
         hook_returned_built |-> t.ret = 1]

RehydrateCalls ==
    { c \in [fn : {"rehydrate"}, registered : BOOLEAN, logging_config : LoggingConfigs,
             using_peft : BOOLEAN, adapters : SUBSET Adapters,
             hook : {"identity", "replace"}] :
        /\ c.using_peft <=> c.adapters # {}
        /\ c.using_peft => "default" \in c.adapters
        /\ ~c.logging_config.has_metadata =>
               c.logging_config.pretrained_model_name = None }

CallRehydrate ==
    /\ arg.fn = "rehydrate"
    /\ ~res.done
    /\ res' = Result(Rehydrate(
                  PretrainedModelName(arg.registered, arg.logging_config),
                  arg.using_peft, arg.adapters, arg.hook))
    /\ UNCHANGED <<arg, cfg, durKnown, ts, ev, stage, pc, err, selfVars,
                   cycleVars, ops, coll, clockVars>>

\* --------------------------------------------------- license discovery
\* File names are sequences of characters.
UpperCase == << "A", "B", "C", "D", "E", "F", "G", "H", "I", "J", "K", "L", "M",
                "N", "O", "P", "Q", "R", "S", "T", "U", "V", "W", "X", "Y", "Z" >>
LowerCase == << "a", "b", "c", "d", "e", "f", "g", "h", "i", "j", "k", "l", "m",
                "n", "o", "p", "q", "r", "s", "t", "u", "v", "w", "x", "y", "z" >>

\* [a-z] under re.IGNORECASE: a letter of either case.
IsLetter(c) == \E k \in 1 .. Len(LowerCase) : c = LowerCase[k] \/ c = UpperCase[k]

\* Case folding of one character.
Fold(c) ==
    IF \E k \in 1 .. Len(UpperCase) : c = UpperCase[k]
    THEN LowerCase[CHOOSE k \in 1 .. Len(UpperCase) : c = UpperCase[k]]
    ELSE c

\* The literal part of _LICENSE_FILE_PATTERN.
LicenseLiteral == << "l", "i", "c", "e", "n", "s", "e" >>

\* The literal lit[j..] matches name at position i, ignoring case; the
\* result is the position after the match, 0 when there is none.
RECURSIVE MatchLiteral(_, _, _, _)
MatchLiteral(name, i, lit, j) ==
    IF j > Len(lit) THEN i
    ELSE IF i > Len(name) THEN 0
    ELSE IF Fold(name[i]) = lit[j] THEN MatchLiteral(name, i + 1, lit, j + 1)
    ELSE 0

\* The group (\.[a-z]+|$) matches name at position k.
MatchTail(name, k) ==
    \/ /\ k + 1 <= Len(name)
       /\ name[k] = "."
       /\ IsLetter(name[k + 1])
    \/ k = Len(name) + 1

\* Variant: re.match, the pattern is tried at the start of the name only.
PatternSearch_AtStart(name, i) ==
    LET k == MatchLiteral(name, i, LicenseLiteral, 1)
    IN  i = 1 /\ k # 0 /\ MatchTail(name, k)

\* _LICENSE_FILE_PATTERN.search(name), trying the start positions from i on.
RECURSIVE PatternSearch(_, _)
PatternSearch(name, i) ==
    IF i > Len(name) THEN FALSE
    ELSE LET k == MatchLiteral(name, i, LicenseLiteral, 1)
         IN  IF k # 0 /\ MatchTail(name, k) THEN TRUE
             ELSE PatternSearch(name, i + 1)

NoLicense == [found |-> FALSE, filename |-> <<>>]

\* next(file for file in os.listdir(local_dir) if pattern.search(file)),
\* None on StopIteration; pretrained_model_name is None.
RECURSIVE MaybeGetLicenseFilename(_)
MaybeGetLicenseFilename(listing) ==
    IF listing = <<>> THEN NoLicense
    ELSE IF PatternSearch(Head(listing), 1)
         THEN [found |-> TRUE, filename |-> Head(listing)]
         ELSE MaybeGetLicenseFilename(Tail(listing))

\* File names a saved model directory may hold.
FileNames ==
    { << "L", "I", "C", "E", "N", "S", "E" >>,
      << "L", "I", "C", "E", "N", "S", "E", ".", "t", "x", "t" >>,
      << "l", "i", "c", "e", "n", "s", "e", ".", "M", "D" >>,
      << "L", "i", "c", "e", "n", "s", "e", ".", "t", "x", "t", ".", "b", "a", "k" >>,
      << "R", "E", "A", "D", "M", "E", ".", "m", "d" >>,
      << "c", "o", "n", "f", "i", "g", ".", "j", "s", "o", "n" >>,
      << "L", "I", "C", "E", "N", "S", "E", "-", "M", "I", "T" >>,
      << "L", "I", "C", "E", "N", "S", "E", ".", "2" >>,
      << "L", "I", "C", "E", "N", "S", "E", "." >>,
      << "U", "N", "L", "I", "C", "E", "N", "S", "E" >>,
      << "s", "u", "b", "l", "i", "c", "e", "n", "s", "e", ".", "t", "x", "t" >>,
      << "l", "i", "c", "e", "n", "c", "e" >> }

\* os.listdir(local_dir): the names of the directory in the order listed.
Listings ==
    UNION { { l \in [1 .. n -> FileNames] :
                \A a, b \in 1 .. n : a # b => l[a] # l[b] } : n \in 0 .. MaxFiles }

LicenseCalls == [fn : {"_maybe_get_license_filename"}, listing : Listings]

CallLicense ==
    /\ arg.fn = "_maybe_get_license_filename"
    /\ ~res.done
    /\ res' = Result(MaybeGetLicenseFilename(arg.listing))
    /\ UNCHANGED <<arg, cfg, durKnown, ts, ev, stage, pc, err, selfVars,
                   cycleVars, ops, coll, clockVars>>

\* ------------------------------------------- specification of the calls
Calls == GatherCalls \cup TransformCalls \cup RehydrateCalls \cup LicenseCalls

CallInit ==
    /\ CallbackInit
    /\ cfg = CHOOSE c \in Configs : TRUE
    /\ durKnown
    /\ arg \in Calls
    /\ res = NoResult

CallNext ==
    \/ CallGather
    \/ CallTransformConfig
    \/ CallRehydrate
    \/ CallLicense

CallSpec == CallInit /\ [][CallNext]_vars

\* C19: transform_config applied to its own result gives an equal config,
\* and the call leaves its argument as it was, attn_config and ffn_config
\* included, for 'mpt' and for other model types; the result is a new object.
C19_TransformIdempotent ==
    (arg.fn = "transform_config" /\ res.done) =>
        /\ res.val.twice = res.val.once
        /\ res.val.arg_after = arg.config
        /\ res.val.once_after = res.val.once
        /\ ~res.val.same_object

C19_Witness ==
    /\ arg.fn = "transform_config"
    /\ res.done
    /\ arg.config.model_type = "mpt"
    /\ arg.config.attn_config.attn_impl = "flash"
    /\ arg.config.init_device = "meta"
    /\ arg.config.ffn_config # NoFfn
    /\ arg.config.ffn_config.moe_world_size = 8
    /\ res.val.once.attn_config.attn_impl = "torch"
    /\ res.val.once.ffn_config.moe_world_size = 1
    /\ res.val.once # arg.config

\* The upload_file calls of rank r in the event being handled, in order.
Uploads(r) == SelectSeq(ops[r], LAMBDA o : o.op = "upload_file")

\* Rank 0 is past the uploads of the running cycle.
UploadsIssued ==
    CycleStarted(0) /\ pc[0] \in {"in_barrier1", "registry", "register", "in_barrier2", "idle"}

\* C18: with a remote destination the cycle writes into a temporary
\* directory that did not exist before, and rank 0 issues one upload_file
\* call per file of that directory, named save_dir joined with the file name,
\* reading the file from the temporary directory, with the configured
\* overwrite flag; with a local destination no temporary directory is made,
\* the files are written to save_dir and nothing is uploaded.
C18_UploadEveryFile ==
    /\ [][\A r \in Ranks :
             (cur_dir'[r] # cur_dir[r] /\ cur_dir'[r] # NoDir) =>
                 IF cfg.remote
                 THEN /\ cur_dir'[r] \notin tmpdirs[r]
                      /\ cur_dir'[r] \in tmpdirs'[r]
                      /\ cur_dir'[r][1] = "tmp"
                 ELSE /\ cur_dir'[r] = SaveDir
                      /\ tmpdirs'[r] = tmpdirs[r]]_vars
    /\ [](/\ UploadsIssued =>
               /\ \E k \in 1 .. Len(ops[0]) :
                     /\ ops[0][k].op = "save_pretrained"
                     /\ ops[0][k].dir = (IF cfg.remote
                                         THEN ops[0][1].dir ELSE SaveDir)
               /\ IF cfg.remote
                  THEN /\ ops[0][1].op = "mkdtemp"
                       /\ Len(Uploads(0)) = Len(SavedFiles)
                       /\ \A k \in 1 .. Len(SavedFiles) :
                             /\ Uploads(0)[k].file = SavedFiles[k]
                             /\ Uploads(0)[k].file_path =
                                    Join(ops[0][1].dir, SavedFiles[k])
                             /\ Uploads(0)[k].remote_file_name =
                                    Join(SaveDir, SavedFiles[k])
                             /\ Uploads(0)[k].overwrite = cfg.overwrite
                  ELSE Uploads(0) = <<>>
          /\ ~cfg.remote => \A r \in Ranks : tmpdirs[r] = {} /\ ~HasOp(r, "mkdtemp"))

C18_Witness ==
    /\ UploadsIssued
    /\ cfg.remote
    /\ ~cfg.overwrite
    /\ Len(Uploads(0)) = Len(SavedFiles)
    /\ tmpdirs[1] # {}
    /\ cur_dir[1] = <<"tmp", 2>>

\* C20: with a pretrained model name in the registry metadata, the model
\* handed to save_pretrained is the one transform_model_and_tokenizer
\* returned, and at that point its name_or_path, and for a peft model the
\* name_or_path of its base_model and the base_model_name_or_path of every
\* adapter config, equal that name; the hook itself saw the names unstamped.
C20_Stamped ==
    (/\ arg.fn = "rehydrate"
     /\ res.done
     /\ arg.logging_config.has_metadata
     /\ arg.logging_config.pretrained_model_name # None) =>
        LET name == arg.logging_config.pretrained_model_name
        IN  /\ res.val.saved.name_or_path = name
            /\ arg.using_peft =>
                  /\ res.val.saved.base_name_or_path = name
                  /\ res.val.saved.adapter_base_names = {name}
            /\ res.val.at_hook.name_or_path = LocalPath
            /\ ~res.val.hook_returned_built =>
                  res.val.built.name_or_path = LocalPath

C20_Witness ==
    /\ arg.fn = "rehydrate"
    /\ res.done
    /\ arg.logging_config.pretrained_model_name = "org/model"
    /\ arg.using_peft
    /\ arg.adapters = Adapters
    /\ arg.hook = "replace"
    /\ ~res.val.hook_returned_built
    /\ res.val.saved.adapter_base_names = {"org/model"}

\* The name with every letter folded to lower case.
Folded(name) == [k \in 1 .. Len(name) |-> Fold(name[k])]

\* The name is 'license' alone, or 'license', a dot and an extension.
IsLicenseName(name) ==
    /\ Len(name) >= 7
    /\ SubSeq(Folded(name), 1, 7) = LicenseLiteral
    /\ \/ Len(name) = 7
       \/ Len(name) >= 9 /\ name[8] = "."

\* Somewhere in the name stands 'license', at the end of the name or
\* followed by a dot and a letter.
HasLicenseInside(name) ==
    \E i \in 1 .. Len(name) :
        /\ i + 6 <= Len(name)
        /\ SubSeq(Folded(name), i, i + 6) = LicenseLiteral
        /\ \/ i + 6 = Len(name)
           \/ /\ i + 8 <= Len(name)
              /\ name[i + 7] = "."
              /\ IsLetter(name[i + 8])

LicenseTxt == << "L", "I", "C", "E", "N", "S", "E", ".", "t", "x", "t" >>
ReadmeName == << "R", "E", "A", "D", "M", "E", ".", "m", "d" >>

\* C21 as stated: the result is the first listed name that is 'license' in
\* any case, alone or followed by any extension, and None when no name is.
C21_NameIsLicense ==
    (arg.fn = "_maybe_get_license_filename" /\ res.done) =>
        LET hits == {k \in 1 .. Len(arg.listing) : IsLicenseName(arg.listing[k])}
        IN  IF hits = {} THEN ~res.val.found
            ELSE /\ res.val.found
                 /\ res.val.filename =
                        arg.listing[CHOOSE k \in hits : \A m \in hits : k <= m]

\* C21: the result is the first listed name that contains 'license' in any
\* case, at the end of the name or followed by a dot and a letter, and None
\* when no listed name does; for LICENSE.txt, README.md it is LICENSE.txt.
C21_FirstLicenseFile ==
    (arg.fn = "_maybe_get_license_filename" /\ res.done) =>
        LET hits == {k \in 1 .. Len(arg.listing) : HasLicenseInside(arg.listing[k])}
        IN  /\ IF hits = {} THEN ~res.val.found
               ELSE /\ res.val.found
                    /\ res.val.filename =
                           arg.listing[CHOOSE k \in hits : \A m \in hits : k <= m]
            /\ arg.listing = <<LicenseTxt, ReadmeName>> =>
                   res.val.filename = LicenseTxt

C21_Witness ==
    /\ arg.fn = "_maybe_get_license_filename"
    /\ res.done
    /\ arg.listing = <<ReadmeName, LicenseTxt>>
    /\ res.val.found
    /\ res.val.filename = LicenseTxt

\* The event handler of rank r has ended, by returning or by raising.
AtEventBoundary(r) == pc[r] \in {"idle", "raised"}

\* The checkpoint cycle that rank r started in the event being handled ended
\* in an error on r.
CycleFailed(r) == CycleStarted(r) /\ pc[r] = "raised"

\* Rank r has completed a checkpoint cycle at the current batch.
CompletedAtBatch(r) == cyclesAtBatch[r] > 0 /\ ~CycleFailed(r)

\* C22: at every event boundary the marker of a rank names the current batch
\* exactly when the rank has completed a checkpoint cycle at this batch, and
\* is unset while no cycle was started; it never names a batch whose cycle
\* ended in an error.
C22_MarkerNamesCompleted ==
    \A r \in Ranks :
        AtEventBoundary(r) =>
            /\ last_checkpoint_batch[r] = ts.batch <=> CompletedAtBatch(r)
            /\ CycleFailed(r) => last_checkpoint_batch[r] # ts.batch

\* The model_uri values of the tracked children of rank r, in list order.
TrackedUris(r) ==
    [k \in 1 .. Len(child_processes[r]) |-> child_processes[r][k].model_uri]

\* The registry loop of the running cycle is over on rank r.
RegistryLoopDone(r) ==
    /\ CycleStarted(r)
    /\ HasOp(r, "transform_model_pre_registration")
    /\ pc[r] \in {"in_barrier2", "idle"}

\* C23: no step removes or replaces an entry of the tracked list, in a
\* checkpoint cycle or in FIT_END; the list grows one started child at a
\* time, the child of the logger whose turn it is, with model_uri
\* <checkpoint dir>/mlflow_save_<i>; a registering cycle leaves one new entry
\* per registry logger in index order; FIT_END returns normally only when no
\* tracked child, of whichever cycle, is alive.
C23_TasksAccumulate ==
    /\ [][\A r \in Ranks :
            /\ IsPrefix(TrackedUris(r), TrackedUris(r)')
            /\ Len(child_processes'[r]) <= Len(child_processes[r]) + 1
            /\ Len(child_processes'[r]) = Len(child_processes[r]) + 1 =>
                  LET new == child_processes'[r][Len(child_processes'[r])]
                  IN  /\ pc[r] = "register"
                      /\ new.model_uri = <<cur_dir[r], reg_i[r]>>
                      /\ new.alive
                      /\ reg_i'[r] = reg_i[r] + 1]_vars
    /\ [](\A r \in Ranks :
            /\ RegistryLoopDone(r) =>
                  LET n == Len(mlflow_loggers[r])
                      m == Len(child_processes[r])
                  IN  /\ CountOp(r, "start") = n
                      /\ m >= n
                      /\ \A i \in 0 .. n - 1 :
                            /\ child_processes[r][m - n + 1 + i].model_uri[2] = i
                            /\ child_processes[r][m - n + 1 + i].model_uri[1] =
                                   ops[r][Len(ops[r])].dir
            /\ FitEndReturned(r) =>
                  \A k \in 1 .. Len(child_processes[r]) :
                      ~child_processes[r][k].alive)

C23_Witness ==
    /\ FitEndReturned(0)
    /\ Len(child_processes[0]) = 2
    /\ child_processes[0][1].model_uri[2] = 0
    /\ child_processes[0][2].model_uri[2] = 1
    /\ child_processes[0][1].model_uri[1] = child_processes[0][2].model_uri[1]

\* The operations of rank r's registry loop in the event being handled, in
\* the order issued.
LoopOps(r) ==
    SelectSeq(ops[r], LAMBDA o : o.op \in {"save_model", "license", "log_artifact",
                                            "pre_register_edit", "start", "append"})

\* The position of the operation named name for logger i in s, 0 if absent.
PosOf(s, name, i) ==
    IF \E k \in 1 .. Len(s) : s[k].op = name /\ s[k].i = i
    THEN CHOOSE k \in 1 .. Len(s) : s[k].op = name /\ s[k].i = i
    ELSE 0

\* C24: in a registering cycle the steps for a logger that has had its turn
\* come in the order save_model, license lookup, log_artifact (present
\* exactly when a license file was found), pre_register_edit, start, append,
\* all on that logger's save path and each exactly once; the child of logger
\* i is started and tracked before save_model of logger i + 1; and when rank
\* 0 is at or past the second barrier every started child is tracked.
C24_RegistryOrder ==
    \A r \in Ranks :
        LET s == LoopOps(r)
            done == IF pc[r] = "register" THEN reg_i[r]
                    ELSE IF RegistryLoopDone(r) THEN Len(mlflow_loggers[r])
                    ELSE 0
        IN  /\ \A i \in 0 .. done - 1 :
                  LET save == PosOf(s, "save_model", i)
                      lic == PosOf(s, "license", i)
                      art == PosOf(s, "log_artifact", i)
                      edit == PosOf(s, "pre_register_edit", i)
                      start == PosOf(s, "start", i)
                      app == PosOf(s, "append", i)
                  IN  /\ save > 0
                      /\ lic = save + 1
                      /\ art # 0 <=> s[lic].file # ""
                      /\ art # 0 => art = lic + 1
                      /\ edit = (IF art # 0 THEN art ELSE lic) + 1
                      /\ start = edit + 1
                      /\ app = start + 1
                      /\ \A k \in save .. app : s[k].i = i /\ s[k].dir = s[save].dir
                      /\ \A k \in 1 .. Len(s) :
                            s[k].i = i => k \in save .. app
                      /\ i + 1 < done => app < PosOf(s, "save_model", i + 1)
                      /\ \E k \in 1 .. Len(child_processes[r]) :
                            child_processes[r][k].model_uri = <<s[start].dir, i>>
            /\ (CycleStarted(r) /\ pc[r] \in {"in_barrier2", "idle"}) =>
                  /\ CountOp(r, "start") = CountOp(r, "append")
                  /\ Len(child_processes[r]) >= CountOp(r, "start")
            /\ Len(s) > 0 => (r = 0 /\ RegisterNow)

C24_Witness ==
    /\ pc[0] = "in_barrier2"
    /\ CountOp(0, "start") = 2
    /\ CountOp(0, "log_artifact") = 1
    /\ Len(child_processes[0]) = 2

\* No rank has raised.
NoError == \A r \in Ranks : err[r] = None

\* Rank r is inside a checkpoint cycle.
InCycle(r) == CycleStarted(r) /\ pc[r] \notin {"idle", "raised"}

\* A step of some rank in a checkpoint cycle that does not raise.
CycleStep == \E r \in Ranks : CycleStepOf(r)

\* How far rank r is through _save_checkpoint.
CycleProgress(r) ==
    CASE pc[r] = "run_event" -> 0
      [] pc[r] = "rehydrate" -> 1
      [] pc[r] = "upload" -> 2
      [] pc[r] = "in_barrier1" -> 3
      [] pc[r] = "registry" -> 4
      [] pc[r] = "register" -> 5 + reg_i[r]
      [] pc[r] = "in_barrier2" -> 6 + MaxLoggers
      [] OTHER -> 7 + MaxLoggers

\* C25: while no rank has raised, all ranks take the same branch of
\* run_event on an event, the collective calls of any two ranks are a prefix
\* of one another and are the same sequence once all ranks have returned;
\* a rank inside a checkpoint cycle is never stuck (some rank can take a
\* step of the cycle that does not raise), every such step moves its rank
\* forward through a cycle of bounded length, and when every rank keeps
\* running, a rank inside a cycle returns from it unless some rank raises.
C25_Lockstep ==
    /\ [](NoError =>
            /\ (\A r \in Ranks : pc[r] = "run_event") =>
                  \A r, x \in Ranks : Branch(r) = Branch(x)
            /\ \A r, x \in Ranks :
                  \/ IsPrefix(Kinds(r), Kinds(x))
                  \/ IsPrefix(Kinds(x), Kinds(r))
            /\ AllReturned => \A r, x \in Ranks : Kinds(r) = Kinds(x)
            /\ (\E r \in Ranks : InCycle(r)) => ENABLED CycleStep)
    /\ [][\A r \in Ranks :
            (InCycle(r) /\ <<pc[r], reg_i[r]>> # <<pc'[r], reg_i'[r]>>) =>
                /\ CycleProgress(r)' > CycleProgress(r)
                /\ CycleProgress(r)' <= 7 + MaxLoggers]_vars
    /\ \A r \in Ranks : InCycle(r) ~> (pc[r] = "idle" \/ ~NoError)

C25_Witness ==
    /\ NoError
    /\ \A r \in Ranks :
          /\ FitEndReturned(r)
          /\ Kinds(r) = <<"all_reduce", "all_reduce">>
    /\ last_checkpoint_batch[1] = ts.batch
    /\ Len(child_processes[0]) = 1

====
